---- MODULE Spec2Model ----
(***************************************************************************)
(* State-machine model of the PDF Table Extractor front end                *)
(* (src/frontend/src/App.js).  The React state of App is the state of the  *)
(* model, every event handler (and every continuation of the asynchronous  *)
(* handleSubmit) is one action.  JavaScript strings that the code parses   *)
(* (file names, the column list, the sample-pages field) are sequences of  *)
(* one-character strings, so that split, trim, toLowerCase, endsWith,      *)
(* isNaN and parseInt are computed the way the code computes them; texts   *)
(* that are only stored or shown (error messages) are TLA+ strings.        *)
(* A nullable value is a sequence of length 0 (null) or 1.                 *)
(***************************************************************************)
EXTENDS Integers, Sequences, FiniteSets, TLC

\* ------------------------------------------------------------------------
\* Bounds of the model
\* ------------------------------------------------------------------------

\* number of submissions that pass validation in one behaviour
MaxRequests == 2

\* rows a returned sheet may have beyond maxPreviewRows
MaxExtraRows == 1

\* cells in the header row of a returned sheet
SheetCols == 2

\* ------------------------------------------------------------------------
\* Program constants
\* ------------------------------------------------------------------------

\* axios timeout option, in milliseconds
RequestTimeoutMs == 300000

\* const maxPreviewRows = 20
maxPreviewRows == 20

Null == <<>>

Some(x) == <<x>>

\* ------------------------------------------------------------------------
\* JavaScript string functions, on sequences of characters
\* ------------------------------------------------------------------------

Digits == <<"0", "1", "2", "3", "4", "5", "6", "7", "8", "9">>

UpperCase == <<"A", "B", "C", "D", "E", "F", "G", "H", "I", "J", "K", "L", "M",
               "N", "O", "P", "Q", "R", "S", "T", "U", "V", "W", "X", "Y", "Z">>

LowerCase == <<"a", "b", "c", "d", "e", "f", "g", "h", "i", "j", "k", "l", "m",
               "n", "o", "p", "q", "r", "s", "t", "u", "v", "w", "x", "y", "z">>

IsDigit(c) == \E i \in 1..Len(Digits) : Digits[i] = c

DigitVal(c) == (CHOOSE i \in 1..Len(Digits) : Digits[i] = c) - 1

\* white space as String.prototype.trim and the numeric conversions see it
IsSpace(c) == c \in {" ", "\t", "\n"}

LowerChar(c) ==
    IF \E i \in 1..Len(UpperCase) : UpperCase[i] = c
    THEN LowerCase[CHOOSE i \in 1..Len(UpperCase) : UpperCase[i] = c]
    ELSE c

\* String.prototype.toLowerCase
toLowerCase(s) == [i \in 1..Len(s) |-> LowerChar(s[i])]

\* String.prototype.endsWith
endsWith(s, suffix) ==
    /\ Len(s) >= Len(suffix)
    /\ SubSeq(s, Len(s) - Len(suffix) + 1, Len(s)) = suffix

RECURSIVE trimStart(_)
trimStart(s) ==
    IF s # <<>> /\ IsSpace(Head(s)) THEN trimStart(Tail(s)) ELSE s

RECURSIVE trimEnd(_)
trimEnd(s) ==
    IF s # <<>> /\ IsSpace(s[Len(s)]) THEN trimEnd(SubSeq(s, 1, Len(s) - 1)) ELSE s

\* String.prototype.trim
trim(s) == trimEnd(trimStart(s))

\* String.prototype.split with a one-character separator: the pieces between
\* the separators, empty pieces included ("".split(",") is [""])
RECURSIVE split(_, _)
split(s, sep) ==
    IF \E i \in 1..Len(s) : s[i] = sep
    THEN LET k == CHOOSE i \in 1..Len(s) :
                      s[i] = sep /\ \A j \in 1..(i - 1) : s[j] # sep
         IN  <<SubSeq(s, 1, k - 1)>> \o split(SubSeq(s, k + 1, Len(s)), sep)
    ELSE <<s>>

\* Array.prototype.filter(c => c) on an array of strings: the non-empty ones
RECURSIVE filterNonEmpty(_)
filterNonEmpty(list) ==
    IF list = <<>> THEN <<>>
    ELSE IF Head(list) = <<>> THEN filterNonEmpty(Tail(list))
    ELSE <<Head(list)>> \o filterNonEmpty(Tail(list))

\* the column list without the map(c => c.trim()) step
ParseColumnList_NoTrim(columns) == filterNonEmpty(split(columns, ","))

\* columns.split(',').map(c => c.trim()).filter(c => c)
ParseColumnList(columns) ==
    LET parts == split(columns, ",")
    IN  filterNonEmpty([i \in 1..Len(parts) |-> trim(parts[i])])

\* index of the first occurrence of pat in s at or after position i, 0 if none
RECURSIVE indexOfFrom(_, _, _)
indexOfFrom(s, pat, i) ==
    IF i + Len(pat) - 1 > Len(s) THEN 0
    ELSE IF SubSeq(s, i, i + Len(pat) - 1) = pat THEN i
    ELSE indexOfFrom(s, pat, i + 1)

\* String.prototype.replace with a string pattern: the first occurrence only
replace(s, pat, by) ==
    LET k == indexOfFrom(s, pat, 1)
    IN  IF k = 0 THEN s
        ELSE SubSeq(s, 1, k - 1) \o by \o SubSeq(s, k + Len(pat), Len(s))

\* ------------------------------------------------------------------------
\* JavaScript numeric conversions of a string
\* ------------------------------------------------------------------------

\* a JavaScript number is NaN or an integer: <<>> or <<n>>
NaN == <<>>

Num(n) == <<n>>

\* v <= 0 and v > 0 as JavaScript compares: false whenever v is NaN
LeqZero(v) == v # NaN /\ v[1] <= 0

GtZero(v) == v # NaN /\ v[1] > 0

\* the longest prefix of s made of decimal digits
RECURSIVE digitPrefix(_)
digitPrefix(s) ==
    IF s # <<>> /\ IsDigit(Head(s)) THEN <<Head(s)>> \o digitPrefix(Tail(s)) ELSE <<>>

RECURSIVE digitsValue(_)
digitsValue(d) ==
    IF d = <<>> THEN 0 ELSE 10 * digitsValue(SubSeq(d, 1, Len(d) - 1)) + DigitVal(d[Len(d)])

\* parseInt(string) with no radix, for strings without a 0x prefix: leading
\* white space is skipped, one sign is read, then the longest run of decimal
\* digits; NaN when that run is empty.  Whatever follows the digits is ignored.
parseInt(s) ==
    LET t    == trimStart(s)
        neg  == t # <<>> /\ Head(t) = "-"
        body == IF t # <<>> /\ Head(t) \in {"-", "+"} THEN Tail(t) ELSE t
        d    == digitPrefix(body)
    IN  IF d = <<>> THEN NaN
        ELSE IF neg THEN Num(0 - digitsValue(d)) ELSE Num(digitsValue(d))

\* whether u is an unsigned decimal literal of the StringNumericLiteral
\* grammar: digits, digits "." [digits], "." digits, each with an optional
\* exponent part e[+-]digits
IsUnsignedDecimal(u) ==
    LET int  == digitPrefix(u)
        r1   == SubSeq(u, Len(int) + 1, Len(u))
        dot  == r1 # <<>> /\ Head(r1) = "."
        r2   == IF dot THEN Tail(r1) ELSE r1
        frac == IF dot THEN digitPrefix(r2) ELSE <<>>
        r3   == SubSeq(r2, Len(frac) + 1, Len(r2))
        hasE == r3 # <<>> /\ Head(r3) \in {"e", "E"}
        r4   == IF hasE THEN Tail(r3) ELSE r3
        r5   == IF hasE /\ r4 # <<>> /\ Head(r4) \in {"-", "+"} THEN Tail(r4) ELSE r4
        exp  == IF hasE THEN digitPrefix(r5) ELSE <<>>
    IN  /\ int # <<>> \/ frac # <<>>
        /\ IF hasE THEN exp # <<>> /\ Len(exp) = Len(r5) ELSE r3 = <<>>

\* the digits of the mantissa of an unsigned decimal literal
MantissaDigits(u) ==
    LET int  == digitPrefix(u)
        r1   == SubSeq(u, Len(int) + 1, Len(u))
    IN  int \o (IF r1 # <<>> /\ Head(r1) = "." THEN digitPrefix(Tail(r1)) ELSE <<>>)

\* the sign of Number(string), or NaN: white space is trimmed, the empty
\* string is 0, then an optionally signed decimal literal is read and anything
\* else is NaN.  (Infinity and the 0x/0o/0b forms are not in the alphabet of
\* the inputs modelled; exponents are too short to underflow to 0.)
NumberSign(s) ==
    LET t    == trim(s)
        neg  == t # <<>> /\ Head(t) = "-"
        u    == IF t # <<>> /\ Head(t) \in {"-", "+"} THEN Tail(t) ELSE t
    IN  IF t = <<>> THEN Num(0)
        ELSE IF ~IsUnsignedDecimal(u) THEN NaN
        ELSE IF \A i \in 1..Len(MantissaDigits(u)) : MantissaDigits(u)[i] = "0" THEN Num(0)
        ELSE IF neg THEN Num(-1) ELSE Num(1)

\* the global isNaN(string)
isNaN(s) == NumberSign(s) = NaN

\* ------------------------------------------------------------------------
\* Inputs: the files the user can pick and the texts the user can type
\* ------------------------------------------------------------------------

PdfSuffix == <<".", "p", "d", "f">>

FileA == [id |-> 1, name |-> <<"a">> \o PdfSuffix]

FileB == [id |-> 2, name |-> <<"B", ".", "P", "D", "F">>]

FileC == [id |-> 3, name |-> <<"c", ".", "t", "x", "t">>]

Files == {FileA, FileB, FileC}

\* useState("Species,Common Name,Location,Status")
DefaultColumns ==
    <<"S", "p", "e", "c", "i", "e", "s", ",",
      "C", "o", "m", "m", "o", "n", " ", "N", "a", "m", "e", ",",
      "L", "o", "c", "a", "t", "i", "o", "n", ",",
      "S", "t", "a", "t", "u", "s">>

ColumnInputs ==
    { DefaultColumns,
      <<>>,
      <<" ", ",", " ">>,
      <<"a", ",", " ", "a", " ", ",", ",", "A">> }

SampleInputs ==
    { <<>>, <<"2">>, <<"0">>, <<"-", "1">>, <<"x">>, <<"-", ".", "5">> }

NotesInputs == {"", "only the species table"}

\* ------------------------------------------------------------------------
\* The server's answers
\* ------------------------------------------------------------------------

\* the row counts of the sheets a response may carry: around the empty sheet
\* and around maxPreviewRows
SheetRows == (0..2) \cup (maxPreviewRows..(maxPreviewRows + MaxExtraRows))

\* what the bytes of a successful response hold: a workbook whose first sheet
\* has `rows` rows (row 1 the header, `cols` cells wide), or bytes XLSX.read
\* cannot parse (Null)
SheetShapes == {Some([rows |-> r, cols |-> SheetCols]) : r \in SheetRows} \cup {Null}

\* URL.createObjectURL(blob): a fresh URL for the blob of request `id`, made
\* for the result link or for one download (saved under the name saveAs)
ObjectUrl(kind, id, saveAs) == [kind |-> kind, blob |-> id, saveAs |-> saveAs]

\* the URLs alive after URL.createObjectURL returned url
createObjectURL(urls, url) == urls \cup {url}

\* the URLs alive after URL.revokeObjectURL(url)
revokeObjectURL(urls, url) == urls \ {url}

\* response.data of request `id`, which uploaded the file `file`
MkBlob(id, file, sheet) == [id |-> id, file |-> file, sheet |-> sheet]

\* XLSX.utils.sheet_to_json(sheet, {header: 1}) of a parseable blob: an array
\* of rows, each an array of cells; the data rows here hold one cell each
sheet_to_json(blob) ==
    LET sh == blob.sheet[1]
    IN  [i \in 1..sh.rows |->
            IF i = 1 THEN [j \in 1..sh.cols |-> <<blob.id, i, j>>]
                     ELSE <<(<<blob.id, i, 1>>)>>]

\* error responses: the body is a Blob holding JSON (an object with the
\* fields error and message, "" when absent, or the literal null), a Blob
\* holding other text, a Blob that cannot be read, or not a Blob at all
ErrorResponses ==
    { [body |-> "blobJson", error |-> "quota exceeded", message |-> "", statusText |-> "Internal Server Error"],
      [body |-> "blobJson", error |-> "", message |-> "bad file", statusText |-> "Internal Server Error"],
      [body |-> "blobJson", error |-> "", message |-> "", statusText |-> "Internal Server Error"],
      [body |-> "blobJsonNull", error |-> "", message |-> "", statusText |-> "Internal Server Error"],
      [body |-> "blobText", error |-> "", message |-> "", statusText |-> ""],
      [body |-> "blobUnreadable", error |-> "", message |-> "", statusText |-> "Bad Gateway"],
      [body |-> "object", error |-> "quota exceeded", message |-> "", statusText |-> "Internal Server Error"],
      [body |-> "object", error |-> "", message |-> "", statusText |-> ""] }

\* error.response.status of the error responses
ErrorStatus == "500"

\* a || b on strings
OrElse(a, b) == IF a # "" THEN a ELSE b

\* ------------------------------------------------------------------------
\* State
\* ------------------------------------------------------------------------

VARIABLES
    pdfFile,           \* useState(null): Null or the chosen file
    columns,           \* the column field
    notes,             \* the extra-instructions field
    isLoading,
    downloadLink,      \* useState(""): Null or an object URL
    previewData,       \* useState([]): the parsed rows
    extractedBlob,     \* useState(null): Null or the response blob
    originalFilename,  \* useState("")
    extractionStats,   \* useState(null): Null or {totalRows, totalColumns, hasData}
    error,             \* useState("")
    samplePages,       \* the sample-pages field
    pc,                \* where the running handleSubmit is: idle, awaitPost, awaitText
    request,           \* Null or the FormData of the request in flight
    elapsed,           \* milliseconds since the request in flight was sent
    errorResponse,     \* Null or the error response whose blob is being read
    readers,           \* the blobs whose FileReader has not fired onload yet
    nextId,            \* number of the next request
    objectUrls         \* the object URLs created and not revoked yet

formVars == <<pdfFile, columns, notes, samplePages, originalFilename>>

resultVars == <<downloadLink, previewData, extractedBlob, extractionStats>>

jobVars == <<pc, request, elapsed, errorResponse, nextId>>

vars == <<pdfFile, columns, notes, isLoading, downloadLink, previewData,
          extractedBlob, originalFilename, extractionStats, error, samplePages,
          pc, request, elapsed, errorResponse, readers, nextId, objectUrls>>

Init ==
    /\ pdfFile = Null
    /\ columns = DefaultColumns
    /\ notes = ""
    /\ isLoading = FALSE
    /\ downloadLink = Null
    /\ previewData = <<>>
    /\ extractedBlob = Null
    /\ originalFilename = <<>>
    /\ extractionStats = Null
    /\ error = ""
    /\ samplePages = <<>>
    /\ pc = "idle"
    /\ request = Null
    /\ elapsed = 0
    /\ errorResponse = Null
    /\ readers = {}
    /\ nextId = 1
    /\ objectUrls = {}

\* ------------------------------------------------------------------------
\* Form handlers
\* ------------------------------------------------------------------------

\* onChange of the column field
SetColumns(c) ==
    /\ columns' = c
    /\ UNCHANGED <<pdfFile, notes, samplePages, originalFilename, isLoading, error,
                   resultVars, jobVars, readers, objectUrls>>

\* onChange of the extra-instructions field
SetNotes(n) ==
    /\ notes' = n
    /\ UNCHANGED <<pdfFile, columns, samplePages, originalFilename, isLoading, error,
                   resultVars, jobVars, readers, objectUrls>>

\* onChange of the sample-pages field
SetSamplePages(p) ==
    /\ samplePages' = p
    /\ UNCHANGED <<pdfFile, columns, notes, originalFilename, isLoading, error,
                   resultVars, jobVars, readers, objectUrls>>

\* handleFileChange: f is e.target.files[0], Null when the choice was cancelled
handleFileChange(f) ==
    /\ pdfFile' = f
    /\ originalFilename' = IF f # Null THEN f[1].name ELSE <<>>
    /\ error' = ""
    /\ downloadLink' = Null
    /\ previewData' = <<>>
    /\ extractedBlob' = Null
    /\ extractionStats' = Null
    /\ UNCHANGED <<columns, notes, samplePages, isLoading, jobVars, readers,
                   objectUrls>>

\* ------------------------------------------------------------------------
\* handleSubmit
\* ------------------------------------------------------------------------

\* validateInputs: the message it passes to setError, "" when it returns true
ValidationError(file, cols, pages) ==
    IF file = Null
        THEN "Please select a PDF file"
    ELSE IF ~endsWith(toLowerCase(file[1].name), PdfSuffix)
        THEN "Please select a valid PDF file"
    ELSE IF trim(cols) = <<>>
        THEN "Please specify at least one column"
    ELSE IF Len(ParseColumnList(cols)) = 0
        THEN "Please specify valid column names"
    ELSE IF pages # <<>> /\ (isNaN(pages) \/ LeqZero(parseInt(pages)))
        THEN "Sample pages must be a positive number"
    ELSE ""

validateInputs == ValidationError(pdfFile, columns, samplePages) = ""

\* the FormData handleSubmit builds: sample_pages is appended only when the
\* field holds a positive number
MkFormData(file, cols, extra, pages) ==
    [ file               |-> file[1],
      columns            |-> ParseColumnList(cols),
      extra_instructions |-> extra,
      sample_pages       |-> IF pages # <<>> /\ ~isNaN(pages) /\ GtZero(parseInt(pages))
                             THEN parseInt(pages) ELSE Null ]

\* handleSubmit up to its first await.  The submit button is disabled while
\* isLoading, so the handler starts only when no request is in flight.
handleSubmit ==
    /\ ~isLoading
    /\ \/ /\ ~validateInputs
          /\ error' = ValidationError(pdfFile, columns, samplePages)
          /\ UNCHANGED <<formVars, isLoading, resultVars, jobVars, readers,
                         objectUrls>>
       \/ /\ validateInputs
          /\ nextId <= MaxRequests
          /\ isLoading' = TRUE
          /\ downloadLink' = Null
          /\ previewData' = <<>>
          /\ extractedBlob' = Null
          /\ extractionStats' = Null
          /\ error' = ""
          /\ request' = Some([id |-> nextId,
                              form |-> MkFormData(pdfFile, columns, notes, samplePages)])
          /\ nextId' = nextId + 1
          /\ pc' = "awaitPost"
          /\ elapsed' = 0
          /\ UNCHANGED <<formVars, errorResponse, readers, objectUrls>>

\* time passes while axios.post is pending, until the deadline of the request
Tick ==
    /\ pc = "awaitPost"
    /\ elapsed < RequestTimeoutMs
    /\ elapsed' = RequestTimeoutMs
    /\ UNCHANGED <<formVars, isLoading, error, resultVars, pc, request, errorResponse,
                   nextId, readers, objectUrls>>

\* the end of handleSubmit: setIsLoading(false)
FinishSubmit ==
    /\ isLoading' = FALSE
    /\ pc' = "idle"
    /\ request' = Null
    /\ errorResponse' = Null
    /\ elapsed' = 0

\* axios.post resolves: the try block after the await, then setIsLoading(false)
ResponseSuccess(sheet) ==
    /\ pc = "awaitPost"
    /\ elapsed < RequestTimeoutMs
    /\ LET blob == MkBlob(request[1].id, request[1].form.file.id, sheet)
           link == ObjectUrl("result", blob.id, <<>>)
       IN  /\ extractedBlob' = Some(blob)
           /\ downloadLink' = Some(link)
           /\ objectUrls' = createObjectURL(objectUrls, link)
           /\ readers' = readers \cup {blob}
    /\ FinishSubmit
    /\ UNCHANGED <<formVars, error, previewData, extractionStats, nextId>>

\* the text of setError for an error response whose blob was read (or not)
BlobErrorMessage(resp) ==
    IF resp.body = "blobJson"
    THEN "Extraction failed: " \o OrElse(resp.error, OrElse(resp.message, "Unknown error"))
    ELSE "Extraction failed: " \o ErrorStatus \o " " \o resp.statusText

\* the text of setError for an error response whose body is not a Blob
ObjectErrorMessage(resp) ==
    "Extraction failed: " \o OrElse(resp.error, OrElse(resp.statusText, "Server error"))

NoResponseMessage ==
    "No response from server. Please check if the backend is running at https://aiextractorautomationpipeline.onrender.com"

SetupMessages == {"", "Request aborted"}

\* axios.post rejects with error.response set
ResponseError(resp) ==
    /\ pc = "awaitPost"
    /\ elapsed < RequestTimeoutMs
    /\ IF resp.body = "object"
       THEN /\ error' = ObjectErrorMessage(resp)
            /\ FinishSubmit
       ELSE /\ pc' = "awaitText"
            /\ errorResponse' = Some(resp)
            /\ request' = Null
            /\ elapsed' = 0
            /\ UNCHANGED <<error, isLoading>>
    /\ UNCHANGED <<formVars, resultVars, nextId, readers, objectUrls>>

\* the continuation after text() with setIsLoading(false) left out
ErrorTextRead_StaysLoading ==
    /\ pc = "awaitText"
    /\ error' = BlobErrorMessage(errorResponse[1])
    /\ pc' = "idle"
    /\ errorResponse' = Null
    /\ UNCHANGED <<formVars, isLoading, resultVars, request, elapsed, nextId, readers,
                   objectUrls>>

\* error.response.data.text() settles: JSON.parse and setError, or the
\* fallbacks of the two catch blocks, then setIsLoading(false)
ErrorTextRead ==
    /\ pc = "awaitText"
    /\ error' = BlobErrorMessage(errorResponse[1])
    /\ FinishSubmit
    /\ UNCHANGED <<formVars, resultVars, nextId, readers, objectUrls>>

\* axios.post rejects with error.request set and no response: a network
\* failure before the deadline
NoResponse ==
    /\ pc = "awaitPost"
    /\ elapsed < RequestTimeoutMs
    /\ error' = NoResponseMessage
    /\ FinishSubmit
    /\ UNCHANGED <<formVars, resultVars, nextId, readers, objectUrls>>

\* the timeout of 300000 ms expires: axios rejects with error.request set
RequestTimeout ==
    /\ pc = "awaitPost"
    /\ elapsed >= RequestTimeoutMs
    /\ error' = NoResponseMessage
    /\ FinishSubmit
    /\ UNCHANGED <<formVars, resultVars, nextId, readers, objectUrls>>

\* axios.post rejects before anything was sent: neither response nor request
SetupFailure(message) ==
    /\ pc = "awaitPost"
    /\ elapsed = 0
    /\ error' = "Request failed: " \o message
    /\ FinishSubmit
    /\ UNCHANGED <<formVars, resultVars, nextId, readers, objectUrls>>

\* the statistics with the header row counted as a data row
CalcStats_CountsHeader(json) ==
    [ totalRows    |-> Len(json),
      totalColumns |-> IF Len(json) > 0 THEN Len(json[1]) ELSE 0,
      hasData      |-> Len(json) > 1 ]

\* the statistics reader.onload computes from the parsed rows
CalcStats(json) ==
    [ totalRows    |-> IF Len(json) > 0 THEN Len(json) - 1 ELSE 0,
      totalColumns |-> IF Len(json) > 0 THEN Len(json[1]) ELSE 0,
      hasData      |-> Len(json) > 1 ]

\* reader.onload of the FileReader started on blob
ReaderOnLoad(blob) ==
    /\ blob \in readers
    /\ readers' = readers \ {blob}
    /\ IF blob.sheet = Null
       THEN /\ error' = "Could not parse extracted data for preview"
            /\ UNCHANGED <<previewData, extractionStats>>
       ELSE /\ previewData' = sheet_to_json(blob)
            /\ extractionStats' = Some(CalcStats(sheet_to_json(blob)))
            /\ UNCHANGED error
    /\ UNCHANGED <<formVars, isLoading, downloadLink, extractedBlob, jobVars,
                   objectUrls>>

\* ------------------------------------------------------------------------
\* The result panel: shown when extractionStats && !isLoading
\* ------------------------------------------------------------------------

ResultPanelShown == extractionStats # Null /\ ~isLoading

ExtractedPrefix == <<"e", "x", "t", "r", "a", "c", "t", "e", "d", "_">>

XlsxSuffix == <<".", "x", "l", "s", "x">>

\* a.download of handleDownload
DownloadName(filename) == ExtractedPrefix \o replace(filename, PdfSuffix, XlsxSuffix)

\* handleDownload: saves the blob under a temporary object URL, which it
\* revokes before it returns; does nothing without a blob or a file name
handleDownload ==
    /\ ResultPanelShown
    /\ IF extractedBlob # Null /\ originalFilename # <<>>
       THEN LET url == ObjectUrl("download", extractedBlob[1].id,
                                     DownloadName(originalFilename))
            IN  objectUrls' = revokeObjectURL(createObjectURL(objectUrls, url), url)
       ELSE UNCHANGED objectUrls
    /\ UNCHANGED <<formVars, isLoading, error, resultVars, jobVars, readers>>

\* handleDiscard with a setError("") added to its resets
handleDiscard_ClearsError ==
    /\ ResultPanelShown
    /\ downloadLink' = Null
    /\ previewData' = <<>>
    /\ extractedBlob' = Null
    /\ extractionStats' = Null
    /\ error' = ""
    /\ objectUrls' = IF downloadLink # Null
                      THEN revokeObjectURL(objectUrls, downloadLink[1])
                      ELSE objectUrls
    /\ UNCHANGED <<formVars, isLoading, jobVars, readers>>

\* handleDiscard
handleDiscard ==
    /\ ResultPanelShown
    /\ downloadLink' = Null
    /\ previewData' = <<>>
    /\ extractedBlob' = Null
    /\ extractionStats' = Null
    /\ objectUrls' = IF downloadLink # Null
                      THEN revokeObjectURL(objectUrls, downloadLink[1])
                      ELSE objectUrls
    /\ UNCHANGED <<formVars, isLoading, error, jobVars, readers>>

\* renderPreviewTable: what the preview shows.  note is the "(showing first 20
\* rows)" text, footer the "... and K more rows" line, more its K.
renderPreviewTable ==
    IF Len(previewData) = 0 THEN Null
    ELSE LET previewRows == SubSeq(previewData, 1,
                                   IF Len(previewData) < maxPreviewRows
                                   THEN Len(previewData) ELSE maxPreviewRows)
         IN  Some([ header   |-> previewRows[1],
                    dataRows |-> Tail(previewRows),
                    note     |-> extractionStats # Null /\ Len(previewData) > maxPreviewRows,
                    footer   |-> Len(previewData) > maxPreviewRows,
                    more     |-> Len(previewData) - maxPreviewRows ])

\* ------------------------------------------------------------------------
\* Specification
\* ------------------------------------------------------------------------

\* one step of the program, with the user's choices and the server's answers
\* drawn from the given sets
NextOver(files, columnTexts, noteTexts, pageTexts, shapes, errors) ==
    \/ \E f \in {Null} \cup {Some(x) : x \in files} : handleFileChange(f)
    \/ \E c \in columnTexts : SetColumns(c)
    \/ \E n \in noteTexts : SetNotes(n)
    \/ \E p \in pageTexts : SetSamplePages(p)
    \/ handleSubmit
    \/ Tick
    \/ \E sheet \in shapes : ResponseSuccess(sheet)
    \/ \E resp \in errors : ResponseError(resp)
    \/ ErrorTextRead
    \/ NoResponse
    \/ RequestTimeout
    \/ \E m \in SetupMessages : SetupFailure(m)
    \/ \E blob \in readers : ReaderOnLoad(blob)
    \/ handleDownload
    \/ handleDiscard

\* the specification of the result handling: every sheet shape and error
\* response, and the form inputs that decide whether a request is sent
Next ==
    NextOver({FileA, FileC}, {DefaultColumns, <<>>}, NotesInputs, {<<>>},
             SheetShapes, ErrorResponses)

Spec == Init /\ [][Next]_vars

\* the specification of the form: every form input, and one answer of each
\* kind from the server
FormNext ==
    NextOver({FileB, FileC}, ColumnInputs, NotesInputs, SampleInputs,
             {Null, Some([rows |-> 2, cols |-> SheetCols])},
             {r \in ErrorResponses : r.error # "" /\ r.body = "blobJson"})

FormSpec == Init /\ [][FormNext]_vars

\* the result handling under the scheduling the code relies on: time passes
\* while a request is pending, axios rejects the request at its deadline, and
\* reading the blob of an error response settles
LiveSpec ==
    Init /\ [][Next]_vars /\ WF_vars(Tick) /\ WF_vars(RequestTimeout) /\ WF_vars(ErrorTextRead)

\* ------------------------------------------------------------------------
\* C1: validation failures are reported and the job never starts
\* ------------------------------------------------------------------------

\* the inputs C1 calls invalid: no file, a file name that does not end in
\* .pdf whatever its case, a column text with no name left after splitting on
\* commas and trimming, or a non-empty sample-pages text that is not a number
\* or is one that is <= 0
InvalidInputs ==
    \/ pdfFile = Null
    \/ pdfFile # Null /\ ~endsWith(toLowerCase(pdfFile[1].name), PdfSuffix)
    \/ \A i \in 1..Len(split(columns, ",")) : trim(split(columns, ",")[i]) = <<>>
    \/ samplePages # <<>> /\ (NumberSign(samplePages) = NaN \/ LeqZero(NumberSign(samplePages)))

\* C1: whenever handleSubmit is called with invalid inputs, error is set to a
\* non-empty message, no request is sent, isLoading stays false and
\* downloadLink, previewData, extractedBlob and extractionStats are unchanged.
C1_InvalidInputsNeverStartAJob ==
    [][(handleSubmit /\ InvalidInputs) =>
            /\ error' # ""
            /\ request' = Null /\ pc' = "idle" /\ nextId' = nextId
            /\ isLoading' = FALSE
            /\ UNCHANGED resultVars]_vars

\* ------------------------------------------------------------------------
\* C2: the column list of the request
\* ------------------------------------------------------------------------

\* the places of the commas of a text, and the text between two places
CommaPlaces(text) == {i \in 1..Len(text) : text[i] = ","}

\* the k-th piece of a text cut at its commas, k = 1 .. number of commas + 1
Piece(text, k) ==
    LET cuts  == {0, Len(text) + 1} \cup CommaPlaces(text)
        below == CHOOSE i \in cuts : Cardinality({j \in cuts : j < i}) = k - 1
        above == CHOOSE i \in cuts : Cardinality({j \in cuts : j < i}) = k
    IN  SubSeq(text, below + 1, above - 1)

HasName(piece) == \E i \in 1..Len(piece) : ~IsSpace(piece[i])

\* list holds, in the order of the text, one name for every piece of the text
\* that is not blank: the piece without the white space around it, its case
\* kept
IsNameListOf(list, text) ==
    LET n     == Cardinality(CommaPlaces(text)) + 1
        named == {k \in 1..n : HasName(Piece(text, k))}
    IN  /\ Len(list) = Cardinality(named)
        /\ \A k \in named :
              LET at    == Cardinality({j \in named : j <= k})
                  piece == Piece(text, k)
                  first == CHOOSE i \in 1..Len(piece) :
                               ~IsSpace(piece[i]) /\ \A j \in 1..(i - 1) : IsSpace(piece[j])
                  last  == CHOOSE i \in 1..Len(piece) :
                               ~IsSpace(piece[i]) /\ \A j \in (i + 1)..Len(piece) : IsSpace(piece[j])
              IN  list[at] = SubSeq(piece, first, last)

NoDuplicates(list) == \A i, j \in 1..Len(list) : list[i] = list[j] => i = j

\* C2 as stated: the column list of the request in flight holds non-empty
\* trimmed names and no name twice.
C2_RequestColumnsAreASchema ==
    request # Null =>
        LET list == request[1].form.columns
        IN  /\ \A i \in 1..Len(list) : list[i] # <<>> /\ trim(list[i]) = list[i]
            /\ NoDuplicates(list)

\* C2 as amended: when handleSubmit sends a request, its column list is not
\* empty and holds one name per non-blank comma-separated piece of the column
\* text, in the order of the text, trimmed and with its case kept; a name
\* that occurs twice in the text occurs twice in the list.
C2_RequestColumnsAreTheTrimmedPieces ==
    [][(request = Null /\ request' # Null) =>
            /\ request'[1].form.columns # <<>>
            /\ IsNameListOf(request'[1].form.columns, columns)]_vars

\* a request is in flight whose column list holds a name twice and a name
\* that differs from another only by its case
C2_Witness ==
    /\ request # Null
    /\ ~NoDuplicates(request[1].form.columns)
    /\ \E i, j \in 1..Len(request[1].form.columns) :
          /\ request[1].form.columns[i] # request[1].form.columns[j]
          /\ toLowerCase(request[1].form.columns[i]) = toLowerCase(request[1].form.columns[j])

\* ------------------------------------------------------------------------
\* C3: an error or a result, never both
\* ------------------------------------------------------------------------

\* C3: in every state with isLoading false, error is not non-empty while
\* extractedBlob or extractionStats is non-null.
C3_ErrorOrResultNeverBoth ==
    ~isLoading => ~(error # "" /\ (extractedBlob # Null \/ extractionStats # Null))

\* ------------------------------------------------------------------------
\* C4: the preview and the download come from the same bytes
\* ------------------------------------------------------------------------

\* C4: whenever previewData is non-empty and extractedBlob is non-null,
\* previewData and extractionStats were parsed from the blob in extractedBlob.
C4_PreviewIsOfTheStoredBlob ==
    (previewData # <<>> /\ extractedBlob # Null) =>
        /\ extractedBlob[1].sheet # Null
        /\ previewData = sheet_to_json(extractedBlob[1])
        /\ extractionStats = Some(CalcStats(sheet_to_json(extractedBlob[1])))

\* ------------------------------------------------------------------------
\* C5: every submission ends, and a failed one leaves an error and no blob
\* ------------------------------------------------------------------------

\* the run of handleSubmit that is under way, or was last, is request nextId - 1
StoredBlobIsOfThisRequest == extractedBlob # Null /\ extractedBlob[1].id = nextId - 1

\* C5: a request is in flight only with isLoading true; isLoading, once
\* true, becomes false again; and the step that ends a run of handleSubmit
\* sets isLoading to false and either stores the blob of that request or
\* leaves a non-empty error and no blob.
C5_EverySubmissionEnds ==
    /\ [](request # Null => isLoading)
    /\ [](isLoading => <>(~isLoading))
    /\ [][(pc # "idle" /\ pc' = "idle") =>
              /\ isLoading' = FALSE
              /\ \/ StoredBlobIsOfThisRequest'
                 \/ error' # "" /\ extractedBlob' = Null]_vars

\* a request was sent and ended without a response
C5_Witness ==
    /\ nextId > 1
    /\ pc = "idle"
    /\ ~isLoading
    /\ error = NoResponseMessage
    /\ extractedBlob = Null

\* ------------------------------------------------------------------------
\* C6: the statistics of a parsed sheet
\* ------------------------------------------------------------------------

\* C6: for the parsed sheet of R rows in previewData, totalRows is R - 1 when
\* R > 0 and 0 when R = 0, totalColumns is the number of cells of the header
\* row (0 when R = 0), and hasData is true exactly when totalRows > 0.
C6_StatsOfTheSheet ==
    extractionStats # Null =>
        LET stats == extractionStats[1]
            R     == Len(previewData)
        IN  /\ R > 0 => stats.totalRows = R - 1 /\ stats.totalColumns = Len(previewData[1])
            /\ R = 0 => stats.totalRows = 0 /\ stats.totalColumns = 0
            /\ stats.hasData <=> stats.totalRows > 0

\* the statistics of a sheet with a header and maxPreviewRows data rows
C6_Witness ==
    /\ extractionStats # Null
    /\ Len(previewData) = maxPreviewRows + 1
    /\ extractionStats[1].totalRows = maxPreviewRows
    /\ extractionStats[1].totalColumns = SheetCols
    /\ extractionStats[1].hasData

\* ------------------------------------------------------------------------
\* C7: the preview table
\* ------------------------------------------------------------------------

Min(a, b) == IF a < b THEN a ELSE b

\* C7: for a sheet with N data rows below the header the preview renders the
\* header and the first min(N, 20) data rows, shows the note and the footer
\* exactly when data rows are left out, and the K of the footer is the number
\* of data rows left out.
C7_PreviewShowsFirst20DataRows ==
    (previewData # <<>> /\ extractionStats # Null) =>
        LET table   == renderPreviewTable[1]
            N       == Len(previewData) - 1
            shown   == Len(table.dataRows)
            leftOut == shown < N
        IN  /\ table.header = previewData[1]
            /\ shown = Min(N, 20)
            /\ table.dataRows = SubSeq(previewData, 2, shown + 1)
            /\ table.note <=> leftOut
            /\ table.footer <=> leftOut
            /\ leftOut => shown + table.more = extractionStats[1].totalRows

\* ------------------------------------------------------------------------
\* C8: object URLs are revoked
\* ------------------------------------------------------------------------

\* C8: every object URL that was created and is not held in downloadLink has
\* been revoked.
C8_UnheldUrlsAreRevoked ==
    \A url \in objectUrls : downloadLink = Some(url)

\* ------------------------------------------------------------------------
\* C9: what handleFileChange and handleDiscard change
\* ------------------------------------------------------------------------

FileChoices == {Null} \cup {Some(x) : x \in Files}

ResultIsReset ==
    /\ downloadLink = Null
    /\ previewData = <<>>
    /\ extractedBlob = Null
    /\ extractionStats = Null

\* C9: after handleFileChange or handleDiscard downloadLink, previewData,
\* extractedBlob and extractionStats are empty; handleFileChange sets pdfFile
\* and originalFilename to the chosen file (the empty name when there is
\* none) and clears error; both leave columns, notes, samplePages and
\* isLoading unchanged, and handleDiscard leaves pdfFile, originalFilename
\* and error unchanged too.
C9_ResetsTheResultAndNothingElse ==
    [][/\ \A f \in FileChoices :
              handleFileChange(f) =>
                  /\ ResultIsReset'
                  /\ pdfFile' = f
                  /\ originalFilename' = (IF f = Null THEN <<>> ELSE f[1].name)
                  /\ error' = ""
                  /\ UNCHANGED <<columns, notes, samplePages, isLoading>>
       /\ handleDiscard =>
              /\ ResultIsReset'
              /\ UNCHANGED <<columns, notes, samplePages, isLoading>>
              /\ UNCHANGED <<pdfFile, originalFilename, error>>]_vars

\* handleDiscard has run on the result of the second request: the link of
\* that result was created (its reader is still pending) and is revoked, and
\* the error, the file and the form texts it found are still there
C9_Witness ==
    /\ ResultIsReset
    /\ \E blob \in readers : ObjectUrl("result", blob.id, <<>>) \notin objectUrls
    /\ error # ""
    /\ pdfFile # Null
    /\ samplePages # <<>>
    /\ notes # ""
    /\ ~isLoading

\* ------------------------------------------------------------------------
\* C10: the Download button has something to download
\* ------------------------------------------------------------------------

\* C10: whenever the result panel is shown (extractionStats non-null and
\* isLoading false), extractedBlob is non-null and originalFilename is
\* non-empty.
C10_DownloadHasABlobAndAName ==
    ResultPanelShown => extractedBlob # Null /\ originalFilename # <<>>

\* ------------------------------------------------------------------------
\* C11: a stored result belongs to the selected file
\* ------------------------------------------------------------------------

\* C11: whenever extractedBlob is non-null, it is the response to a request
\* that uploaded the file now held in pdfFile, and originalFilename is the
\* name of that file.
C11_StoredBlobIsOfTheSelectedFile ==
    extractedBlob # Null =>
        /\ pdfFile # Null
        /\ extractedBlob[1].file = pdfFile[1].id
        /\ originalFilename = pdfFile[1].name

====
